---- MODULE Spec2Model ----
(***************************************************************************)
(* The touch-pad custom element of src/src/ha-touch-pad.ts: its private    *)
(* fields, its three input handlers, the deferred-tap timer and the        *)
(* element's life cycle, as a state machine.                               *)
(*                                                                         *)
(* Time is the value Date.now() returns, in milliseconds; the event loop   *)
(* runs a timer callback at its deadline or at any later moment.           *)
(* Lengths are CSS pixels; the cursor's offset from the centre is kept in  *)
(* half pixels (left2 = 2 * left) because (offsetWidth - w) / 2 is a half  *)
(* integer when the difference is odd.                                     *)
(***************************************************************************)
EXTENDS Integers, Sequences, FiniteSets, TLC

VARIABLES
  _config,       \* the merged configuration (setConfig)
  _circle,       \* "undefined" until updated() resolves the cursor element
  style,         \* the cursor element's inline style: transition, left, top
  _startX,       \* origin of the session
  _startY,
  _lastTouch,    \* Date.now() of the last release in the tap region
  _timeout,      \* handle returned by the last setTimeout
  _mouseDown,
  connected,     \* the listeners of connectedCallback are attached
  updatePending, \* the render requested by the first connection has not run yet
  timers,        \* the event loop's pending timers: [id, deadline]
  now,           \* Date.now()
  fingers,       \* touches the pad has seen start and not yet end
  emitted,       \* the 'hass-action' events the last step dispatched
  taps,          \* the releases handled as taps: [t, tap, double_tap], the time
                 \* of the release and the events dispatched for it so far
  threw,         \* the handler run by the last step threw a TypeError
  release,       \* the release event of the last step, if it was one: its
                 \* source and where its displacement lies
  moved,         \* the move event of the last step, if it was one: its source,
                 \* whether it was processed, its point and the pad's size
  pressed        \* the point of the most recent press-start event

vars == <<_config, _circle, style, _startX, _startY, _lastTouch, _timeout,
          _mouseDown, connected, updatePending, timers, now, fingers, emitted,
          taps, threw, release, moved, pressed>>

-----------------------------------------------------------------------------
(* Bounds of the model *)

\* releases handled as taps in one run
MaxTaps == 3
\* the same, in the runs that explore the cursor and the classification
MaxCursorTaps == 1
\* clock steps in those runs
MaxCursorTicks == 1
\* clock steps in one run (the clock still runs on to a pending deadline)
MaxTicks == 3
\* milliseconds per clock step
TickMs == 100
\* fingers that can be down at once
MaxFingers == 2

-----------------------------------------------------------------------------
(* Values *)

\* the value of a field that was never assigned, and of a missing config key
Undefined == -1

Gestures == {"tap", "double_tap", "up", "down", "left", "right"}

\* clientX / clientY values of the input events
Coord == {0, 3, 50, 60}
Points == Coord \X Coord
\* the points where a press starts
PressPoints == {<<0, 0>>, <<60, 60>>}
\* the points a drag passes through
MovePoints == {<<3, 50>>, <<60, 3>>, <<50, 60>>}
\* the origins and the one drag of the runs that explore the taps
TapPressPoints == {<<0, 0>>, <<60, 60>>}
DragPoints == {<<60, 3>>}

\* <<offsetWidth, offsetHeight>> of the element: larger than the cursor by an
\* odd and by an even number of pixels, as large as the cursor, and smaller
PadSizes == {<<141, 141>>, <<40, 140>>, <<140, 0>>, <<0, 40>>}
\* offsetWidth = offsetHeight of the cursor (cursor_size: '40px')
CursorSize == 40

ActionKey(action) ==
  CASE action = "tap"        -> "tap_action"
    [] action = "double_tap" -> "double_tap_action"
    [] action = "up"         -> "up_action"
    [] action = "down"       -> "down_action"
    [] action = "left"       -> "left_action"
    [] action = "right"      -> "right_action"

\* the action descriptor a user configuration gives to a gesture
Descriptor(action) == <<"perform", action>>

ActionsFor(gs) == [k \in {ActionKey(g) : g \in gs} |->
                     Descriptor(CHOOSE g \in gs : ActionKey(g) = k)]

Merge(f, g) == [k \in DOMAIN f \cup DOMAIN g |->
                  IF k \in DOMAIN g THEN g[k] ELSE f[k]]

\* the configurations handed to setConfig
UserConfigs ==
  { ActionsFor(Gestures),
    ActionsFor({"tap"}),
    Merge(ActionsFor({"double_tap", "left", "down"}),
          [tap_threshold |-> 60, swipe_threshold |-> 5]) }

Defaults == [swipe_threshold |-> 50, tap_threshold |-> 5, tap_timeout |-> 200]

setConfig(config) == Merge(Defaults, config)

\* !this._config[key]: the key is missing (every descriptor given is an object)
Missing(config, key) == key \notin DOMAIN config

Abs(n) == IF n < 0 THEN -n ELSE n
Max(a, b) == IF a > b THEN a ELSE b
Min(a, b) == IF a < b THEN a ELSE b

CentreStyle == [transition |-> "", left2 |-> 0, top2 |-> 0]
ReturnTransition == "top 0.5s, left 0.5s"


-----------------------------------------------------------------------------
(* The release of the last step, in the words of the specification, 4.3 *)

NoMove == [event |-> FALSE, isTouch |-> FALSE, processed |-> FALSE,
           x |-> 0, y |-> 0, W |-> 0, H |-> 0]

NoRelease == [isTouch |-> FALSE, tapRegion |-> FALSE, swipe |-> "none", any |-> FALSE]

\* rules 2 and 3 taken alone: the swipe of a displacement, or "none"
SwipeRule(rawDeltaX, rawDeltaY, config) ==
  IF Abs(rawDeltaX) > Abs(rawDeltaY) /\ Abs(rawDeltaX) > config.swipe_threshold
    THEN (IF rawDeltaX > 0 THEN "right" ELSE "left")
  ELSE IF Abs(rawDeltaY) > Abs(rawDeltaX) /\ Abs(rawDeltaY) > config.swipe_threshold
    THEN (IF rawDeltaY > 0 THEN "down" ELSE "up")
  ELSE "none"

\* a release that ends no session (no press was ever seen) is not recorded
Released(isTouch, rawDeltaX, rawDeltaY, startX, config) ==
  IF startX = Undefined THEN NoRelease
  ELSE [isTouch   |-> isTouch,
        tapRegion |-> Abs(rawDeltaX) < config.tap_threshold
                      /\ Abs(rawDeltaY) < config.tap_threshold,
        swipe     |-> SwipeRule(rawDeltaX, rawDeltaY, config),
        any       |-> TRUE]

-----------------------------------------------------------------------------
(* Emission *)

\* _fireEvent that names the gesture in detail.action
_fireEvent_NamesGesture(config, action, by) ==
  IF Missing(config, ActionKey(action)) THEN << >>
  ELSE << [gesture |-> action,
           detail  |-> [config |-> [tap_action |-> config[ActionKey(action)]],
                        action |-> action],
           by |-> by] >>

\* the events _fireEvent(action) dispatches, as a sequence; by tells the
\* caller, the release handler or the timer callback
_fireEvent(config, action, by) ==
  IF Missing(config, ActionKey(action)) THEN << >>
  ELSE << [gesture |-> action,
           detail  |-> [config |-> [tap_action |-> config[ActionKey(action)]],
                        action |-> "tap"],
           by |-> by] >>

-----------------------------------------------------------------------------
Init ==
  /\ \E c \in UserConfigs : _config = setConfig(c)
  /\ _circle = "undefined"
  /\ style = CentreStyle
  /\ _startX = Undefined
  /\ _startY = Undefined
  /\ _lastTouch = Undefined
  /\ _timeout = Undefined
  /\ _mouseDown = FALSE
  /\ connected = FALSE
  /\ updatePending = FALSE
  /\ timers = {}
  /\ now = 0
  /\ fingers = 0
  /\ emitted = << >>
  /\ taps = << >>
  /\ threw = FALSE
  /\ release = NoRelease
  /\ moved = NoMove
  /\ pressed = <<Undefined, Undefined>>

-----------------------------------------------------------------------------
(* Life cycle *)

\* connectedCallback: attaches the six listeners; the first connection requests
\* the first render, which runs as a microtask before any later task
connectedCallback ==
  /\ ~connected
  /\ connected' = TRUE
  /\ updatePending' = (_circle = "undefined")
  /\ emitted' = << >>
  /\ threw' = FALSE
  /\ release' = NoRelease
  /\ moved' = NoMove
  /\ UNCHANGED <<_config, pressed, _circle, style, _startX, _startY, _lastTouch,
                 _timeout, _mouseDown, timers, now, fingers, taps>>

\* updated: resolves the cursor element of the rendered shadow tree
updated ==
  /\ updatePending
  /\ updatePending' = FALSE
  /\ _circle' = "element"
  /\ emitted' = << >>
  /\ threw' = FALSE
  /\ release' = NoRelease
  /\ moved' = NoMove
  /\ UNCHANGED <<_config, pressed, style, _startX, _startY, _lastTouch, _timeout,
                 _mouseDown, connected, timers, now, fingers, taps>>

\* disconnectedCallback: removes the six listeners and nothing else; touches in
\* progress are no longer delivered to the element
disconnectedCallback ==
  /\ connected
  /\ ~updatePending
  /\ connected' = FALSE
  /\ fingers' = 0
  /\ emitted' = << >>
  /\ threw' = FALSE
  /\ release' = NoRelease
  /\ moved' = NoMove
  /\ UNCHANGED <<_config, pressed, _circle, style, _startX, _startY, _lastTouch,
                 _timeout, _mouseDown, updatePending, timers, now, taps>>

\* an input event or a timer callback is a task: it runs after the microtasks
TaskReady == ~updatePending

-----------------------------------------------------------------------------
(* Session capture *)

\* the origin of the first press kept by the presses that follow
StartOrigin_FirstWins(current, client) ==
  IF current = Undefined THEN client ELSE current

\* lines 57-58: every press-start takes the event's point as the origin
StartOrigin(current, client) == client

_handleStart(isTouch, p) ==
  /\ connected
  /\ isTouch => fingers < MaxFingers
  /\ fingers' = IF isTouch THEN fingers + 1 ELSE fingers
  /\ _mouseDown' = ~isTouch
  /\ _startX' = StartOrigin(_startX, p[1])
  /\ _startY' = StartOrigin(_startY, p[2])
  /\ IF _circle = "undefined"
       THEN /\ style' = style
            /\ threw' = TRUE
       ELSE /\ style' = [style EXCEPT !.transition = "none"]
            /\ threw' = FALSE
  /\ emitted' = << >>
  /\ release' = NoRelease
  /\ moved' = NoMove
  /\ pressed' = p
  /\ UNCHANGED <<_config, _circle, _lastTouch, _timeout, connected,
                 updatePending, timers, now, taps>>

-----------------------------------------------------------------------------
(* Cursor projector *)

\* a clamp that forgets the lower bound
Clamp2_NoLower(delta, span) == Min(2 * delta, span)

\* 2 * Math.max(Math.min(delta, maxDelta), -maxDelta), maxDelta = span / 2
Clamp2(delta, span) == Max(Min(2 * delta, span), -span)

\* a guard that lets every move through
MoveIgnored_Never(isTouch, mouseDown) == FALSE

\* line 67: a non-touch move while no mouse button is held is ignored
MoveIgnored(isTouch, mouseDown) == ~isTouch /\ ~mouseDown

_handleMove(isTouch, p, W, H) ==
  /\ connected
  /\ isTouch => fingers > 0
  /\ IF MoveIgnored(isTouch, _mouseDown)
       THEN /\ style' = style
            /\ threw' = FALSE
            /\ moved' = [NoMove EXCEPT !.event = TRUE, !.isTouch = isTouch]
       ELSE IF _circle = "undefined"
       THEN /\ style' = style
            /\ threw' = TRUE
            /\ moved' = [NoMove EXCEPT !.event = TRUE, !.isTouch = isTouch]
       ELSE /\ style' = [style EXCEPT
                           !.left2 = Clamp2(p[1] - _startX, W - CursorSize),
                           !.top2  = Clamp2(p[2] - _startY, H - CursorSize)]
            /\ threw' = FALSE
            /\ moved' = [event |-> TRUE, isTouch |-> isTouch, processed |-> TRUE,
                          x |-> p[1], y |-> p[2], W |-> W, H |-> H]
  /\ emitted' = << >>
  /\ release' = NoRelease
  /\ UNCHANGED <<_config, pressed, _circle, _startX, _startY, _lastTouch, _timeout,
                 _mouseDown, connected, updatePending, timers, now, fingers,
                 taps>>

-----------------------------------------------------------------------------
(* Gesture classifier *)

\* a tap region that gives way to the swipes
InTapRegion_SwipeFirst(deltaX, deltaY, config) ==
  /\ deltaX < config.tap_threshold /\ deltaY < config.tap_threshold
  /\ deltaX <= config.swipe_threshold /\ deltaY <= config.swipe_threshold

\* the tap region of a release where either axis alone is within tap_threshold
InTapRegion_Either(deltaX, deltaY, config) ==
  deltaX < config.tap_threshold \/ deltaY < config.tap_threshold

\* line 103: the release is in the tap region
InTapRegion(deltaX, deltaY, config) ==
  deltaX < config.tap_threshold /\ deltaY < config.tap_threshold

\* a window of tap_timeout that takes in its far end
WithinTapTimeout_Inclusive(currentTimestamp, lastTouch, config) ==
  lastTouch # Undefined /\ currentTimestamp - lastTouch <= config.tap_timeout

\* line 106: currentTimestamp - this._lastTouch < tap_timeout; the difference
\* is NaN, and the comparison false, while _lastTouch is unassigned
WithinTapTimeout(currentTimestamp, lastTouch, config) ==
  lastTouch # Undefined /\ currentTimestamp - lastTouch < config.tap_timeout

\* the swipe branches with the signs read the other way round
SwipeOf_Flipped(rawDeltaX, rawDeltaY, config) ==
  LET deltaX == Abs(rawDeltaX)
      deltaY == Abs(rawDeltaY)
  IN  IF deltaX > deltaY /\ deltaX > config.swipe_threshold
        THEN (IF rawDeltaX > 0 THEN "left" ELSE "right")
      ELSE IF deltaY > deltaX /\ deltaY > config.swipe_threshold
        THEN (IF rawDeltaY > 0 THEN "up" ELSE "down")
      ELSE "none"

\* the swipe branches with >= in place of >
SwipeOf_Inclusive(rawDeltaX, rawDeltaY, config) ==
  LET deltaX == Abs(rawDeltaX)
      deltaY == Abs(rawDeltaY)
  IN  IF deltaX >= deltaY /\ deltaX >= config.swipe_threshold
        THEN (IF rawDeltaX > 0 THEN "right" ELSE "left")
      ELSE IF deltaY >= deltaX /\ deltaY >= config.swipe_threshold
        THEN (IF rawDeltaY > 0 THEN "down" ELSE "up")
      ELSE "none"

\* lines 115-119: the gesture of a release outside the tap region, or "none"
SwipeOf(rawDeltaX, rawDeltaY, config) ==
  LET deltaX == Abs(rawDeltaX)
      deltaY == Abs(rawDeltaY)
  IN  IF deltaX > deltaY /\ deltaX > config.swipe_threshold
        THEN (IF rawDeltaX > 0 THEN "right" ELSE "left")
      ELSE IF deltaY > deltaX /\ deltaY > config.swipe_threshold
        THEN (IF rawDeltaY > 0 THEN "down" ELSE "up")
      ELSE "none"

\* clearTimeout that cancels nothing
clearTimeout_Keeps(pending, handle) == pending

\* clearTimeout(handle): the pending timers left
clearTimeout(pending, handle) == {tm \in pending : tm.id # handle}

\* setTimeout that forgets the delay
setTimeout_NoDelay(handle, t, delay) == [id |-> handle, deadline |-> t]

\* setTimeout(callback, delay) called at time t: the timer it queues; handles
\* are fresh, the model numbers them by the tap that set them
setTimeout(handle, t, delay) == [id |-> handle, deadline |-> t + delay]

\* _lastTouch left alone on the double-tap branch
LastTouchAfter_SingleOnly(currentTimestamp, lastTouch, isDouble) ==
  IF isDouble THEN lastTouch ELSE currentTimestamp

\* line 114: this._lastTouch = currentTimestamp, on both branches
LastTouchAfter(currentTimestamp, lastTouch, isDouble) == currentTimestamp

_handleEnd(isTouch, p) ==
  /\ connected
  /\ isTouch => fingers > 0
  /\ release' = Released(isTouch, p[1] - pressed[1], p[2] - pressed[2],
                          pressed[1], _config)
  /\ moved' = NoMove
  /\ fingers' = IF isTouch THEN fingers - 1 ELSE fingers
  /\ _mouseDown' = FALSE
  /\ IF ~isTouch /\ ~_mouseDown'
       THEN /\ threw' = FALSE
            /\ emitted' = << >>
            /\ UNCHANGED <<style, _lastTouch, _timeout, timers, taps>>
       ELSE IF _circle = "undefined"
       THEN /\ threw' = TRUE
            /\ emitted' = << >>
            /\ UNCHANGED <<style, _lastTouch, _timeout, timers, taps>>
       ELSE
         LET rawDeltaX == p[1] - _startX
             rawDeltaY == p[2] - _startY
             deltaX == Abs(rawDeltaX)
             deltaY == Abs(rawDeltaY)
             handle == Len(taps) + 1
             currentTimestamp == now
         IN
         /\ threw' = FALSE
         /\ style' = [transition |-> ReturnTransition, left2 |-> 0, top2 |-> 0]
         /\ IF InTapRegion(deltaX, deltaY, _config)
              THEN /\ IF WithinTapTimeout(currentTimestamp, _lastTouch, _config)
                        THEN /\ emitted' = _fireEvent(_config, "double_tap", "handler")
                             /\ timers' = clearTimeout(timers, _timeout)
                             /\ _timeout' = _timeout
                        ELSE /\ emitted' = << >>
                             /\ timers' = clearTimeout(timers, _timeout) \cup
                                  {setTimeout(handle, now, _config.tap_timeout)}
                             /\ _timeout' = handle
                   /\ _lastTouch' = LastTouchAfter(currentTimestamp, _lastTouch,
                                   WithinTapTimeout(currentTimestamp, _lastTouch, _config))
                   /\ taps' = Append(taps, [t |-> now, tap |-> 0,
                                            double_tap |-> Len(emitted')])
              ELSE /\ emitted' =
                        (IF SwipeOf(rawDeltaX, rawDeltaY, _config) = "none"
                           THEN << >>
                           ELSE _fireEvent(_config,
                                           SwipeOf(rawDeltaX, rawDeltaY, _config),
                                           "handler"))
                   /\ UNCHANGED <<_lastTouch, _timeout, timers, taps>>
  /\ UNCHANGED <<_config, pressed, _circle, _startX, _startY, connected, updatePending,
                 now>>

\* the callback of lines 109-112, run by the event loop at or after its deadline
TimerFire(tm) ==
  /\ tm \in timers
  /\ TaskReady
  /\ now >= tm.deadline
  /\ emitted' = _fireEvent(_config, "tap", "timer")
  /\ taps' = [taps EXCEPT ![tm.id].tap = @ + Len(emitted')]
  /\ timers' = clearTimeout(timers \ {tm}, _timeout)
  /\ threw' = FALSE
  /\ release' = NoRelease
  /\ moved' = NoMove
  /\ UNCHANGED <<_config, pressed, _circle, style, _startX, _startY, _lastTouch,
                 _timeout, _mouseDown, connected, updatePending, now, fingers>>

\* time passes: maxTicks steps, and on to the deadline of a pending timer
Tick(maxTicks) ==
  /\ \/ now < maxTicks * TickMs
     \/ \E tm \in timers : now < tm.deadline
  /\ now' = now + TickMs
  /\ emitted' = << >>
  /\ threw' = FALSE
  /\ release' = NoRelease
  /\ moved' = NoMove
  /\ UNCHANGED <<_config, pressed, _circle, style, _startX, _startY, _lastTouch,
                 _timeout, _mouseDown, connected, updatePending, timers,
                 fingers, taps>>

-----------------------------------------------------------------------------
\* sources lists the input sources in use: TRUE is touch, FALSE the mouse
\* the event loop delivers an input event as a task
PressStart(sources, points) ==
  /\ TaskReady
  /\ \E isTouch \in sources, p \in points : _handleStart(isTouch, p)
PointerMove(sources, points, sizes) ==
  /\ TaskReady
  /\ \E isTouch \in sources, p \in points, size \in sizes :
       _handleMove(isTouch, p, size[1], size[2])
\* a run handles at most maxTaps releases as taps
PressEnd(sources, maxTaps) ==
  /\ TaskReady
  /\ \E isTouch \in sources, p \in Points :
       /\ _handleEnd(isTouch, p)
       /\ Len(taps') <= maxTaps
TimerCallback == \E tm \in timers : TimerFire(tm)

\* the runs that explore the taps and their timing: touch input, every
\* release point, one drag, a pad of one size
Next ==
  \/ connectedCallback
  \/ updated
  \/ disconnectedCallback
  \/ PressStart({TRUE}, TapPressPoints)
  \/ PointerMove({TRUE}, DragPoints, {<<141, 141>>})
  \/ PressEnd({TRUE}, MaxTaps)
  \/ TimerCallback
  \/ Tick(MaxTicks)

Spec == Init /\ [][Next]_vars

\* time passes, and the event loop runs a timer callback that is due
FairSpec == Spec /\ WF_vars(Tick(MaxTicks)) /\ WF_vars(TimerCallback)

\* the runs that explore the cursor and the classification: every origin,
\* pointer position and pad size
CursorNext ==
  \/ connectedCallback
  \/ updated
  \/ disconnectedCallback
  \/ PressStart(BOOLEAN, PressPoints)
  \/ PointerMove(BOOLEAN, MovePoints, PadSizes)
  \/ PressEnd(BOOLEAN, MaxCursorTaps)
  \/ TimerCallback
  \/ Tick(MaxCursorTicks)

CursorSpec == Init /\ [][CursorNext]_vars

-----------------------------------------------------------------------------
(* Properties *)

Configured(action) == ActionKey(action) \in DOMAIN _config
Timeout == _config.tap_timeout

\* tap i has no tap within tap_timeout before it
Single(i) ==
  /\ i \in DOMAIN taps
  /\ \A j \in 1..(i - 1) : taps[i].t - taps[j].t >= Timeout

\* taps i and i + 1 are less than tap_timeout apart, and i is a first tap
Pair(i) ==
  /\ i + 1 \in DOMAIN taps
  /\ Single(i)
  /\ taps[i + 1].t - taps[i].t < Timeout

\* C2: when two releases in the tap region are less than tap_timeout apart, the
\* first one not within tap_timeout of an earlier tap, and the tap and
\* double_tap actions are configured, the second release dispatches exactly
\* one 'double_tap' in its handler, the timer of the first is no longer
\* pending, and no 'tap' is ever dispatched for either
C2_DoubleTap ==
  \A i \in DOMAIN taps :
    (Pair(i) /\ Configured("tap") /\ Configured("double_tap")) =>
      /\ taps[i + 1].double_tap = 1
      /\ taps[i].double_tap = 0
      /\ taps[i].tap = 0 /\ taps[i + 1].tap = 0
      /\ \A tm \in timers : tm.id \notin {i, i + 1}

\* a first tap, a second less than tap_timeout later, and time enough for the
\* first one's timer to have fired had it not been canceled
C2_Witness ==
  /\ Configured("tap") /\ Configured("double_tap")
  /\ Pair(1)
  /\ taps[2].double_tap = 1
  /\ now >= taps[1].t + Timeout

\* C9: at most one deferred-tap timer is pending, and it is the one whose
\* handle _timeout holds: a release that sets a new timer has canceled the
\* previous one
C9_OnePendingTimer ==
  /\ Cardinality(timers) <= 1
  /\ \A tm \in timers : tm.id = _timeout /\ tm.id = Len(taps)

\* a second tap set its timer while the overdue timer of the first one was
\* still pending: the first one never fired, and only the second is pending
C9_Witness ==
  /\ Configured("tap")
  /\ Len(taps) = 2
  /\ taps[2].t - taps[1].t >= Timeout
  /\ taps[1].tap = 0
  /\ timers = {[id |-> 2, deadline |-> taps[2].t + Timeout]}

\* C10: no 'tap' event is dispatched while the element is torn down
C10_NoTapAfterTeardown ==
  ~connected => \A k \in DOMAIN emitted : emitted[k].gesture # "tap"

\* the 'tap' event the configuration asks for
TapEvent(by) ==
  [gesture |-> "tap",
   detail  |-> [config |-> [tap_action |-> Descriptor("tap")], action |-> "tap"],
   by      |-> by]

\* a touch release in the tap region with no tap within tap_timeout before it
\* dispatches nothing itself and leaves a timer due tap_timeout later
C1_Deferred ==
  (/\ release'.any /\ release'.isTouch /\ release'.tapRegion
   /\ \A j \in DOMAIN taps : now - taps[j].t >= Timeout)
  => /\ emitted' = << >>
     /\ taps' = Append(taps, [t |-> now, tap |-> 0, double_tap |-> 0])
     /\ timers' = {[id |-> Len(taps'), deadline |-> now + Timeout]}

\* a 'tap' is dispatched for a tap by the timer callback alone, and not before
\* tap_timeout has passed since its release
C1_ByTimer ==
  \A i \in DOMAIN taps :
    taps'[i].tap > taps[i].tap =>
      /\ emitted' = << TapEvent("timer") >>
      /\ now >= taps[i].t + Timeout
      /\ \E tm \in timers : tm.id = i /\ tm \notin timers'

\* for a single tap, at most one 'tap' and no 'double_tap' is dispatched
C1_AtMostOnce ==
  \A i \in DOMAIN taps :
    (Single(i) /\ Configured("tap")) =>
      /\ taps[i].tap <= 1
      /\ taps[i].double_tap = 0
      /\ (Len(taps) = i /\ taps[i].tap = 0) => \E tm \in timers : tm.id = i

\* C1: a touch release in the tap region, with a tap action configured and no
\* tap within tap_timeout before it, is followed by exactly one 'tap' event
\* unless a further release in the tap region follows; the timer callback
\* dispatches it, not before tap_timeout has passed since the release, and no
\* 'double_tap' is dispatched for it
C1_SingleTap ==
  /\ [][C1_Deferred /\ C1_ByTimer]_vars
  /\ [] C1_AtMostOnce
  /\ \A i \in 1..MaxTaps :
       (Single(i) /\ Configured("tap")) ~>
         (Len(taps) > i \/ (Len(taps) = i /\ taps[i].tap = 1))

\* the one 'tap' of a single tap that no other tap followed has been dispatched
C1_Witness ==
  /\ Configured("tap")
  /\ Len(taps) = 2 /\ Single(2)
  /\ taps[2].tap = 1
  /\ emitted = << TapEvent("timer") >>

\* the event the configuration asks for when a handler fires a gesture
Event(action, by) ==
  [gesture |-> action,
   detail  |-> [config |-> [tap_action |-> Descriptor(action)], action |-> "tap"],
   by      |-> by]

\* what firing a gesture dispatches: one event if its action is configured
Fired(action, by) == IF Configured(action) THEN << Event(action, by) >> ELSE << >>

\* the last step handled a touch release
TouchReleased == release.any /\ release.isTouch

\* C3: a touch release outside the tap region whose displacement satisfies a
\* swipe condition dispatches the gesture of its dominant axis and sign (right
\* or left on X, down or up on Y), exactly one event if that action is
\* configured, and sets no timer
C3_SwipeDirection ==
  [][(TouchReleased' /\ ~release'.tapRegion /\ release'.swipe # "none") =>
       /\ emitted' = Fired(release'.swipe, "handler")
       /\ timers' = timers
       /\ _timeout' = _timeout
       /\ taps' = taps]_vars

\* a drag to the left, its action configured, has dispatched 'left'
C3_Witness ==
  /\ TouchReleased /\ ~release.tapRegion /\ release.swipe = "left"
  /\ emitted = << Event("left", "handler") >>

\* C4: a touch release outside the tap region that satisfies neither swipe
\* condition dispatches nothing, sets no timer and leaves _lastTouch alone
C4_DeadZone ==
  [][(TouchReleased' /\ ~release'.tapRegion /\ release'.swipe = "none") =>
       /\ emitted' = << >>
       /\ timers' = timers
       /\ _timeout' = _timeout
       /\ _lastTouch' = _lastTouch
       /\ taps' = taps]_vars

\* a release in the dead zone while the timer of a tap is pending
C4_Witness ==
  /\ TouchReleased /\ ~release.tapRegion /\ release.swipe = "none"
  /\ _lastTouch # Undefined
  /\ timers # {}

\* C5: a touch release in the tap region is handled as a tap and dispatches no
\* left, right, up or down, whatever the thresholds
C5_TapFirst ==
  [][(TouchReleased' /\ release'.tapRegion) =>
       /\ \A k \in DOMAIN emitted' : emitted'[k].gesture \in {"tap", "double_tap"}
       /\ Len(taps') = Len(taps) + 1
       /\ _lastTouch' = now]_vars

\* tap_threshold is above swipe_threshold and the release, in the tap region,
\* also satisfies the condition of a swipe whose action is configured
C5_Witness ==
  /\ _config.tap_threshold > _config.swipe_threshold
  /\ TouchReleased /\ release.tapRegion
  /\ release.swipe # "none" /\ Configured(release.swipe)

\* C6: after a release, of either source, the cursor is back at the centre
\* and the return transition is on
C6_ReturnsToCentre ==
  release.any =>
    style = [transition |-> ReturnTransition, left2 |-> 0, top2 |-> 0]

\* the offset (in half pixels) lies within the span and is the raw
\* displacement when that lies within it
ClampedTo(offset2, rawDelta, span) ==
  /\ -span <= offset2 /\ offset2 <= span
  /\ (-span <= 2 * rawDelta /\ 2 * rawDelta <= span) => offset2 = 2 * rawDelta

\* C7: a move that is processed, the pad at least as large as the cursor, sets
\* the offset of each axis to the raw displacement clamped to
\* [-(W - w) / 2, (W - w) / 2] and [-(H - h) / 2, (H - h) / 2]
C7_Clamped ==
  (moved.processed /\ moved.W >= CursorSize /\ moved.H >= CursorSize) =>
    /\ ClampedTo(style.left2, moved.x - _startX, moved.W - CursorSize)
    /\ ClampedTo(style.top2, moved.y - _startY, moved.H - CursorSize)

\* a drag of (60, 3) on a pad of 141: X pinned at 50.5, Y at the raw 3
C7_Witness ==
  /\ moved.processed /\ moved.W = 141 /\ moved.H = 141
  /\ moved.x - _startX = 60 /\ moved.y - _startY = 3
  /\ style.left2 = 101
  /\ style.top2 = 6

\* C8: firing a gesture dispatches nothing when the gesture has no action
\* configured and exactly one event when it has; the event carries action
\* 'tap' and, as config.tap_action, the descriptor configured for the gesture
C8_Emission ==
  [][/\ Len(emitted') <= 1
     /\ \A k \in DOMAIN emitted' :
          /\ emitted'[k].gesture \in Gestures
          /\ Configured(emitted'[k].gesture)
          /\ emitted'[k] = Event(emitted'[k].gesture, emitted'[k].by)
     /\ (TouchReleased' /\ ~release'.tapRegion /\ release'.swipe # "none") =>
          emitted' = Fired(release'.swipe, "handler")
     /\ (/\ TouchReleased' /\ release'.tapRegion
         /\ \E j \in DOMAIN taps : now - taps[j].t < Timeout) =>
          emitted' = Fired("double_tap", "handler")
     /\ (~release'.any /\ \E tm \in timers : tm \notin timers') =>
          emitted' = Fired("tap", "timer")]_vars

\* a swipe up whose action is not configured has dispatched nothing
C8_Witness ==
  /\ TouchReleased /\ ~release.tapRegion /\ release.swipe = "up"
  /\ ~Configured("up")
  /\ emitted = << >>

\* the release of a press the mouse started
MouseReleased == release.any /\ ~release.isTouch

\* C11: a mouse release that ends a mouse press is classified and dispatches
\* by the rules of a touch release: in the tap region it is handled as a tap
\* (the deferred 'tap' timer is set, or 'double_tap' dispatched), and a swipe
\* dispatches the event of its direction in the handler
C11_SourceAgnostic ==
  [][(_mouseDown /\ MouseReleased') =>
       /\ release'.tapRegion => Len(taps') = Len(taps) + 1
       /\ (~release'.tapRegion /\ release'.swipe # "none") =>
            emitted' = Fired(release'.swipe, "handler")]_vars

\* C12: a non-touch move event that arrives while _mouseDown is false (before
\* any mouse press, after a mouse release, or while only a touch is down)
\* changes nothing: the cursor's style, the origin of the press, _lastTouch
\* and the pending timer stay as they were
C12_IgnoredMove ==
  [][(moved'.event /\ ~moved'.isTouch /\ ~_mouseDown) =>
       UNCHANGED <<style, _startX, _startY, _lastTouch, _timeout, timers,
                   _mouseDown>>]_vars

\* a mouse move was ignored while a touch was down that had dragged the cursor
\* off the centre, with a deferred tap pending
C12_Witness ==
  /\ moved.event /\ ~moved.isTouch /\ ~moved.processed
  /\ ~_mouseDown
  /\ fingers > 0
  /\ style.left2 # 0
  /\ timers # {}

\* the cursor is pinned at the pad's bound on the x axis by the last move,
\* whose raw horizontal displacement is beyond the bound
PinnedX ==
  /\ moved.processed
  /\ moved.W > CursorSize
  /\ Abs(style.left2) = moved.W - CursorSize
  /\ 2 * Abs(moved.x - _startX) > moved.W - CursorSize

\* C13: the displacement a release is classified by is the release point minus
\* the point of the most recent press-start: the origin is at every moment the
\* point of the last press-start (a second press-start replaces it), a move
\* never alters it, and it is never clamped by the pad: a touch release that
\* follows a processed move, the cursor pinned at the bound or not, is still
\* classified by its raw displacement from that press: as a tap when it is back
\* in the tap region, as the swipe of its direction when it is beyond
\* swipe_threshold
C13_Displacement ==
  [][/\ <<_startX', _startY'>> = pressed'
     /\ moved'.event => UNCHANGED <<_startX, _startY>>
     /\ (moved.processed /\ TouchReleased' /\ release'.tapRegion) =>
          Len(taps') = Len(taps) + 1
     /\ (moved.processed /\ TouchReleased' /\ ~release'.tapRegion) =>
          emitted' = IF release'.swipe = "none" THEN << >>
                     ELSE Fired(release'.swipe, "handler")]_vars

\* two fingers are down, so the second press-start replaced the origin of the
\* first, and a move since has pinned the cursor at the bound, the pointer
\* further than swipe_threshold from the origin
C13_Witness ==
  /\ fingers = 2
  /\ PinnedX
  /\ Abs(moved.x - pressed[1]) > _config.swipe_threshold
  /\ pressed = <<_startX, _startY>>

\* taps i, i + 1 and i + 2 each come less than tap_timeout after the one before
Chain(i) ==
  /\ i + 2 \in DOMAIN taps
  /\ taps[i + 1].t - taps[i].t < Timeout
  /\ taps[i + 2].t - taps[i + 1].t < Timeout

\* C14: every release in the tap region sets _lastTouch to its time, on the
\* double-tap branch too, so the window of a double tap is measured from the
\* tap-region release just before: of three such releases, each less than
\* tap_timeout after the one before, the second and the third each dispatch
\* one 'double_tap' (when that action is configured), and no 'tap' is
\* dispatched for any of the three
C14_TapChain ==
  /\ taps # << >> => _lastTouch = taps[Len(taps)].t
  /\ \A i \in DOMAIN taps :
       Chain(i) =>
         /\ \A j \in {i + 1, i + 2} :
              taps[j].double_tap = IF Configured("double_tap") THEN 1 ELSE 0
         /\ \A j \in {i, i + 1, i + 2} : taps[j].tap = 0
         /\ \A tm \in timers : tm.id \notin {i, i + 1, i + 2}

\* three taps, the third less than tap_timeout after the second but not after
\* the first, both later ones dispatched as double taps, no timer pending, and
\* no 'tap' dispatched although tap_timeout has passed since the second
C14_Witness ==
  /\ Configured("tap") /\ Configured("double_tap")
  /\ Chain(1)
  /\ taps[3].t - taps[1].t >= Timeout
  /\ taps[2].double_tap = 1 /\ taps[3].double_tap = 1
  /\ timers = {}
  /\ now >= taps[2].t + Timeout

\* the step runs the callback of a timer that is due, and removes it
TimerRan ==
  /\ ~release'.any /\ ~moved'.event
  /\ \E tm \in timers : now >= tm.deadline /\ tm \notin timers'
  /\ emitted' = Fired("tap", "timer")

\* C15: a pending deferred tap is canceled only by a release in the tap
\* region or by the teardown: a step that is none of these nor the timer's own
\* callback (a press-start, a move, a swipe release, a release in the dead
\* zone) leaves the pending timer and _lastTouch unchanged, so a swipe
\* released while the timer of a tap is pending dispatches its event with the
\* timer still pending, the 'tap' left to follow when the timer fires
C15_OnlyTapsCancel ==
  [][/\ (timers' # timers \/ _lastTouch' # _lastTouch \/ _timeout' # _timeout) =>
          \/ TouchReleased' /\ release'.tapRegion
          \/ connected /\ ~connected'
          \/ TimerRan /\ UNCHANGED <<_lastTouch, _timeout>>
     /\ (TouchReleased' /\ ~release'.tapRegion) =>
          /\ UNCHANGED <<timers, _lastTouch, _timeout>>
          /\ \A k \in DOMAIN emitted' : emitted'[k].gesture = release'.swipe]_vars

\* a swipe has just been released and dispatched less than tap_timeout after a
\* tap, whose timer is still pending and not yet due
C15_Witness ==
  /\ TouchReleased /\ ~release.tapRegion
  /\ release.swipe # "none"
  /\ emitted = Fired(release.swipe, "handler") /\ emitted # << >>
  /\ Len(taps) = 1 /\ taps[1].tap = 0
  /\ timers = {[id |-> 1, deadline |-> taps[1].t + Timeout]}
  /\ now < taps[1].t + Timeout

\* a script dispatches an input event on the element in the task that
\* connected it: dispatchEvent runs the listeners at once, before the
\* microtask of the first update has run updated()
EarlyDispatch ==
  /\ updatePending
  /\ \/ \E isTouch \in BOOLEAN, p \in TapPressPoints : _handleStart(isTouch, p)
     \/ \E isTouch \in BOOLEAN, p \in DragPoints :
          _handleMove(isTouch, p, 141, 141)
     \/ \E isTouch \in BOOLEAN, p \in TapPressPoints : _handleEnd(isTouch, p)

\* the runs in which input can also arrive between connectedCallback and the
\* first updated()
EarlyNext == Next \/ EarlyDispatch

EarlySpec == Init /\ [][EarlyNext]_vars

\* C16: whatever the order of the connection, the first updated() and the
\* input events, no handler operates on an unresolved cursor element: no
\* input event faults
C16_NeverFaults == ~threw

\* C17: when the pad is not larger than the cursor on an axis (a pad of size
\* zero, or of the cursor's size), a processed move sets the cursor's offset
\* on that axis to 0, wherever the pointer is
C17_DegenerateGeometry ==
  moved.processed =>
    /\ moved.W <= CursorSize => style.left2 = 0
    /\ moved.H <= CursorSize => style.top2 = 0

\* tap i has no other tap within tap_timeout before or after it
Isolated(i) ==
  /\ Single(i)
  /\ \A j \in DOMAIN taps : j > i => taps[j].t - taps[i].t >= Timeout

\* C18: no tap is lost when its timer runs late: a release in the tap region
\* with no other such release within tap_timeout before or after it has its
\* one 'tap' dispatched, or its timer still pending to dispatch it; a later tap
\* at least tap_timeout after it does not cancel it (tap action configured)
C18_NoLostTap ==
  \A i \in DOMAIN taps :
    (Isolated(i) /\ Configured("tap")) =>
      \/ taps[i].tap = 1
      \/ taps[i].tap = 0 /\ \E tm \in timers : tm.id = i

\* the step is a release that dispatches 'double_tap'
DoubleTapped ==
  /\ TouchReleased' /\ release'.tapRegion
  /\ emitted' = << Event("double_tap", "handler") >>

\* C19: no release in the tap region is counted twice: once the deferred
\* 'tap' of a release has been dispatched, the next release does not dispatch
\* 'double_tap' with it as the first tap; and, said to be the same,
\* 'double_tap' is dispatched only in a step where the timer of the tap before
\* was still pending and is canceled by that step
C19_PendingTimerCanceled ==
  [][DoubleTapped =>
       /\ taps # << >> /\ taps[Len(taps)].tap = 0
       /\ \E tm \in timers : tm.id = Len(taps) /\ tm \notin timers']_vars

\* C19, amended: no release in the tap region is counted twice: a release
\* dispatches 'double_tap' only when the tap-region release before it is less
\* than tap_timeout old and has had no 'tap' dispatched, and none is
\* dispatched for it later: the step leaves no timer pending (it cancels the
\* timer of the release before, if that one set a timer: the second release of
\* a chain set none)
C19_NotCountedTwice ==
  [][/\ DoubleTapped =>
          /\ taps # << >> /\ taps[Len(taps)].tap = 0
          /\ now - taps[Len(taps)].t < Timeout
          /\ timers' = {}
     /\ \A i \in DOMAIN taps :
          (i + 1 \in DOMAIN taps /\ taps[i + 1].double_tap = 1) =>
             taps[i].tap = 0 /\ taps'[i].tap = 0]_vars

\* the deferred 'tap' of the first release was dispatched, and the second
\* release came exactly tap_timeout after the first and is not a double tap,
\* although 'double_tap' is configured
C19_Witness ==
  /\ Configured("tap") /\ Configured("double_tap")
  /\ Len(taps) = 2
  /\ taps[1].tap = 1
  /\ taps[2].t - taps[1].t = Timeout
  /\ taps[2].double_tap = 0

\* C20: with a tap action configured and no double_tap action, two releases
\* in the tap region less than tap_timeout apart dispatch no event at all:
\* the second cancels the deferred 'tap' of the first, dispatches nothing on
\* its double-tap branch, and sets no timer
C20_SilentDoubleTap ==
  \A i \in DOMAIN taps :
    (Pair(i) /\ Configured("tap") /\ ~Configured("double_tap")) =>
      /\ taps[i].tap = 0 /\ taps[i].double_tap = 0
      /\ taps[i + 1].tap = 0 /\ taps[i + 1].double_tap = 0
      /\ \A tm \in timers : tm.id \notin {i, i + 1}
      /\ (Len(taps) = i + 1 /\ TouchReleased /\ release.tapRegion) =>
           emitted = << >> /\ timers = {}

\* only the tap action is configured, two taps came less than tap_timeout
\* apart, and tap_timeout has passed since the second with nothing dispatched
C20_Witness ==
  /\ Configured("tap") /\ ~Configured("double_tap")
  /\ Len(taps) = 2
  /\ Pair(1)
  /\ taps[1].tap = 0 /\ taps[2].tap = 0
  /\ timers = {}
  /\ now >= taps[2].t + Timeout

====
